---- MODULE Spec2Model ----
(***************************************************************************)
(* VoronoiTerrainBuilder::build (src/src/lib.rs) as a state machine.       *)
(*                                                                         *)
(* The tessellation (delaunay2d) and the noise function are external; the  *)
(* decomposition returned by export_voronoi_regions is an input chosen in  *)
(* Init: a number of vertices and a list of cells, each cell a list of     *)
(* vertex indices.  Positions and normals are floating point values that   *)
(* no index depends on; the model keeps the index structure only.          *)
(*                                                                         *)
(* All indices (vertex, region, edge) are the 0-based values of the code;  *)
(* position k of a Vec is element k+1 of the TLA+ sequence.                *)
(***************************************************************************)
EXTENDS Integers, Sequences, FiniteSets, TLC

\* lib.rs:143-145: the normal of a region reads dt_cell[0], dt_cell[1] and
\* dt_cell[2], so a cell has at least 3 vertices.
MinCellLen == 3

\* Bounds of the explored decompositions: vertices, vertices of one cell,
\* and cell positions in all.
MaxVertices == 4
MaxCellLen == 3
MaxPositions == 6

\* The cells of minimal length that fit in the position budget.
MaxCells == MaxPositions \div MinCellLen

\* Bounds of the explored decompositions that meet the tessellation contract:
\* vertices of one cell, and cell positions in all.
MaxContractCellLen == 4
MaxContractPositions == 7

\* The cells of minimal length that fit in the contract position budget.
MaxContractCells == MaxContractPositions \div MinCellLen

VARIABLES
    dt_vertices,                    \* number of vertices returned (lib.rs:73)
    dt_cells,                       \* cells returned (lib.rs:73)
    pc,                             \* position in build()
    region_index,                   \* outer loop counter (lib.rs:92)
    vertex_index,                   \* inner loop counter (lib.rs:93)
    terrain_edges_by_vertex_index,  \* lib.rs:78
    terrain_edges,                  \* lib.rs:82
    region_edges,                   \* lib.rs:83
    region_by_terrain_edge,         \* lib.rs:87
    terrain_edge_index_by_edge,     \* lib.rs:90
    terrain_vertices,               \* lib.rs:126
    regions,                        \* lib.rs:138
    terrain                         \* the returned VoronoiTerrain (lib.rs:167)

vars == <<dt_vertices, dt_cells, pc, region_index, vertex_index,
          terrain_edges_by_vertex_index, terrain_edges, region_edges,
          region_by_terrain_edge, terrain_edge_index_by_edge,
          terrain_vertices, regions, terrain>>

----------------------------------------------------------------------------
\* Helpers.

\* Vec element at 0-based position k.
At(s, k) == s[k + 1]

\* The empty HashMap.
EmptyMap == [x \in {} |-> 0]

\* Sequences over S of length 0..n.
SeqUpTo(S, n) == UNION {[1..k -> S] : k \in 0..n}

\* TerrainVertex (lib.rs:175): the edges field; position and normal are floats.
TerrainVertex(edges) == [edges |-> edges]

\* Region (lib.rs:183) as build() creates it: edges is Vec::new() (lib.rs:152).
Region == [edges |-> <<>>]

\* Graph<T> (lib.rs:191).
Graph(vertices, edges) == [vertices |-> vertices, edges |-> edges]

\* lib.rs:94  dt_cell[(vertex_index + 1) % dt_cell.len()]
NextVertexIndex(dt_cell, vi) == At(dt_cell, (vi + 1) % Len(dt_cell))

\* Mutant of ReverseEdge: the lookup key is the edge itself.
ReverseEdgeSameDirection(current, next) == <<current, next>>

\* lib.rs:99  the reverse of the directed edge (current, next).
ReverseEdge(current, next) == <<next, current>>

\* lib.rs:111  the directed edge (current, next).
ForwardEdge(current, next) == <<current, next>>

\* Mutant of InsertRegion: the region is recorded under the reverse key.
InsertRegionReversedKey(map, edge, ri) == (<<edge[2], edge[1]>> :> ri) @@ map

\* lib.rs:112  region_by_terrain_edge.insert(edge, region_index)
InsertRegion(map, edge, ri) == (edge :> ri) @@ map

\* lib.rs:113  terrain_edge_index_by_edge.insert(edge, *current_vertex_index):
\* the value stored is the current VERTEX index.
InsertEdgeIndex(map, edge, current) == (edge :> current) @@ map

\* Mutant of PushTerrainEdge: an edge already stored is not stored again.
PushTerrainEdgeOnce(edges, edge) ==
    IF \E k \in 1..Len(edges) : edges[k] = edge THEN edges ELSE Append(edges, edge)

\* lib.rs:114  terrain_edges.push(edge)
PushTerrainEdge(edges, edge) == Append(edges, edge)

\* Mutant of NewEdgeIndex: the length is taken for the last index.
NewEdgeIndexOffByOne(edges) == Len(edges)

\* lib.rs:115  terrain_edges.len() - 1, after the push.
NewEdgeIndex(edges) == Len(edges) - 1

\* Mutant of PushRegionEdge: the current region is pushed for both ends.
PushRegionEdgeSelf(edges, ri, other) == Append(edges, <<ri, ri>>)

\* Mutant of PushRegionEdge: the adjacency is pushed in both directions.
PushRegionEdgeBoth(edges, ri, other) ==
    Append(Append(edges, <<ri, other>>), <<other, ri>>)

\* lib.rs:106  region_edges.push((region_index, *other_region))
PushRegionEdge(edges, ri, other) == Append(edges, <<ri, other>>)

\* Mutant of PushVertexEdge: the entry is replaced instead of extended.
PushVertexEdgeReplace(map, current, edge_index) ==
    (current :> <<edge_index>>) @@ map

\* lib.rs:119-121  entry(current).or_insert(Vec).push(edge_index)
PushVertexEdge(map, current, edge_index) ==
    IF current \in DOMAIN map
    THEN [map EXCEPT ![current] = Append(@, edge_index)]
    ELSE (current :> <<edge_index>>) @@ map

\* lib.rs:132  HashMap::remove: the map without key k.
RemoveKey(map, k) == [x \in (DOMAIN map) \ {k} |-> map[x]]

----------------------------------------------------------------------------
\* The decomposition: what the cells traverse.

\* Cell positions (region_index, vertex_index) of a cell list.
PositionsOf(cells) ==
    UNION {{<<r, i>> : i \in 0..(Len(At(cells, r)) - 1)} :
              r \in 0..(Len(cells) - 1)}

\* lib.rs:93-94,111: the directed edge (current, next) formed at a position.
DirectedAt(cells, p) ==
    ForwardEdge(At(At(cells, p[1]), p[2]), NextVertexIndex(At(cells, p[1]), p[2]))

\* Every cell lists at least 3 pairwise-distinct vertex indices.
CellsWellFormed(cells) ==
    \A r \in 1..Len(cells) :
        /\ Len(cells[r]) >= MinCellLen
        /\ \A i, j \in 1..Len(cells[r]) : i # j => cells[r][i] # cells[r][j]

\* Winding consistency of the edge traversals: no directed edge is traversed
\* at two cell positions.
WindingConsistent(cells) ==
    \A p, q \in PositionsOf(cells) :
        p # q => DirectedAt(cells, p) # DirectedAt(cells, q)

\* Cells wound the same way (all counter-clockwise, say) tile a bounded part
\* of the plane, so the union of any non-empty set S of cells has a boundary:
\* an edge that a cell of S traverses and whose reverse no cell of S
\* traverses.  One polygon listed in both orientations, or a closed surface,
\* has none.
HasExteriorBoundary(cells) ==
    \A S \in (SUBSET (0..(Len(cells) - 1))) \ {{}} :
        \E p \in PositionsOf(cells) :
            /\ p[1] \in S
            /\ \A q \in PositionsOf(cells) :
                  q[1] \in S =>
                      DirectedAt(cells, q) #
                          <<DirectedAt(cells, p)[2], DirectedAt(cells, p)[1]>>

\* All cells are wound the same way.
WoundTheSameWay(cells) ==
    /\ WindingConsistent(cells)
    /\ HasExteriorBoundary(cells)

\* Every vertex lies on some cell.
VerticesCovered(nv, cells) ==
    \A v \in 0..(nv - 1) : \E r \in 1..Len(cells) : \E i \in 1..Len(cells[r]) :
        cells[r][i] = v

\* The cells among C that meet the per-cell part of the contract.
WellFormedCells(C) == {c \in C : CellsWellFormed(<<c>>)}

\* Total number of cell positions.
NumPositions(cells) == Cardinality(PositionsOf(cells))

\* Lists of at most maxCells cells drawn from C with at most maxPositions
\* positions in all.
IsCellList(cells, C, maxCells, maxPositions) ==
    /\ \E k \in 0..maxCells : cells \in [1..k -> C]
    /\ NumPositions(cells) <= maxPositions

\* The contract assumed of the tessellation (spec 4.2, 6).
ValidDecomposition(nv, cells) ==
    /\ CellsWellFormed(cells)
    /\ WoundTheSameWay(cells)
    /\ VerticesCovered(nv, cells)

----------------------------------------------------------------------------
\* lib.rs:74-90: the tables are empty when the loop starts.
InitTables ==
    /\ pc = "cells"
    /\ region_index = 0
    /\ vertex_index = 0
    /\ terrain_edges_by_vertex_index = EmptyMap
    /\ terrain_edges = <<>>
    /\ region_edges = <<>>
    /\ region_by_terrain_edge = EmptyMap
    /\ terrain_edge_index_by_edge = EmptyMap
    /\ terrain_vertices = <<>>
    /\ regions = <<>>
    /\ terrain = "none"

\* lib.rs:67-73: any decomposition with valid vertex indices is returned.
Init ==
    /\ dt_vertices \in 0..MaxVertices
    /\ IsCellList(dt_cells, SeqUpTo(0..(dt_vertices - 1), MaxCellLen),
                  MaxCells, MaxPositions)
    /\ InitTables

\* lib.rs:67-73: a decomposition that meets the tessellation contract is returned.
InitContract ==
    /\ dt_vertices \in 0..MaxVertices
    /\ IsCellList(dt_cells,
                  WellFormedCells(SeqUpTo(0..(dt_vertices - 1), MaxContractCellLen)),
                  MaxContractCells, MaxContractPositions)
    /\ ValidDecomposition(dt_vertices, dt_cells) = TRUE
    /\ InitTables

\* lib.rs:93-122: one iteration of the inner loop.
EdgeStep ==
    /\ pc = "cells"
    /\ region_index < Len(dt_cells)
    /\ vertex_index < Len(At(dt_cells, region_index))
    /\ LET dt_cell == At(dt_cells, region_index)
           current == At(dt_cell, vertex_index)
           next    == NextVertexIndex(dt_cell, vertex_index)
           reverse_edge == ReverseEdge(current, next)
           edge    == ForwardEdge(current, next)
       IN  IF reverse_edge \in DOMAIN terrain_edge_index_by_edge
           THEN /\ IF reverse_edge \in DOMAIN region_by_terrain_edge
                   THEN /\ region_edges' =
                               PushRegionEdge(region_edges, region_index,
                                              region_by_terrain_edge[reverse_edge])
                        /\ terrain_edges_by_vertex_index' =
                               PushVertexEdge(terrain_edges_by_vertex_index, current,
                                              terrain_edge_index_by_edge[reverse_edge])
                        /\ vertex_index' = vertex_index + 1
                        /\ pc' = "cells"
                   ELSE \* lib.rs:105  expect(..) on None
                        /\ pc' = "panic_expect"
                        /\ UNCHANGED <<region_edges, terrain_edges_by_vertex_index,
                                       vertex_index>>
                /\ UNCHANGED <<terrain_edges, region_by_terrain_edge,
                               terrain_edge_index_by_edge>>
           ELSE /\ region_by_terrain_edge' =
                       InsertRegion(region_by_terrain_edge, edge, region_index)
                /\ terrain_edge_index_by_edge' =
                       InsertEdgeIndex(terrain_edge_index_by_edge, edge, current)
                /\ terrain_edges' = PushTerrainEdge(terrain_edges, edge)
                /\ terrain_edges_by_vertex_index' =
                       PushVertexEdge(terrain_edges_by_vertex_index, current,
                                      NewEdgeIndex(terrain_edges'))
                /\ vertex_index' = vertex_index + 1
                /\ pc' = "cells"
                /\ UNCHANGED region_edges
    /\ UNCHANGED <<dt_vertices, dt_cells, region_index, terrain_vertices,
                   regions, terrain>>

\* lib.rs:92-93: the inner loop is exhausted, the outer loop takes the next cell.
NextCell ==
    /\ pc = "cells"
    /\ region_index < Len(dt_cells)
    /\ vertex_index = Len(At(dt_cells, region_index))
    /\ region_index' = region_index + 1
    /\ vertex_index' = 0
    /\ UNCHANGED <<dt_vertices, dt_cells, pc, terrain_edges_by_vertex_index,
                   terrain_edges, region_edges, region_by_terrain_edge,
                   terrain_edge_index_by_edge, terrain_vertices, regions, terrain>>

\* lib.rs:92,126: the outer loop is exhausted.
EndCells ==
    /\ pc = "cells"
    /\ region_index = Len(dt_cells)
    /\ pc' = "vertices"
    /\ UNCHANGED <<dt_vertices, dt_cells, region_index, vertex_index,
                   terrain_edges_by_vertex_index, terrain_edges, region_edges,
                   region_by_terrain_edge, terrain_edge_index_by_edge,
                   terrain_vertices, regions, terrain>>

\* lib.rs:127-135: one iteration; remove(&i).unwrap() panics on a vertex
\* that no cell lists.
CreateTerrainVertex ==
    /\ pc = "vertices"
    /\ Len(terrain_vertices) < dt_vertices
    /\ LET i == Len(terrain_vertices)
       IN  IF i \in DOMAIN terrain_edges_by_vertex_index
           THEN /\ terrain_vertices' = Append(terrain_vertices,
                       TerrainVertex(terrain_edges_by_vertex_index[i]))
                /\ terrain_edges_by_vertex_index' =
                       RemoveKey(terrain_edges_by_vertex_index, i)
                /\ pc' = "vertices"
           ELSE /\ pc' = "panic_unwrap"
                /\ UNCHANGED <<terrain_vertices, terrain_edges_by_vertex_index>>
    /\ UNCHANGED <<dt_vertices, dt_cells, region_index, vertex_index,
                   terrain_edges, region_edges, region_by_terrain_edge,
                   terrain_edge_index_by_edge, regions, terrain>>

\* lib.rs:127,138: all vertices are created.
EndVertices ==
    /\ pc = "vertices"
    /\ Len(terrain_vertices) = dt_vertices
    /\ pc' = "regions"
    /\ UNCHANGED <<dt_vertices, dt_cells, region_index, vertex_index,
                   terrain_edges_by_vertex_index, terrain_edges, region_edges,
                   region_by_terrain_edge, terrain_edge_index_by_edge,
                   terrain_vertices, regions, terrain>>

\* lib.rs:143-145: dt_cell[0..2] and terrain_vertices[..] are all in range.
NormalIndicesInRange(dt_cell) ==
    /\ Len(dt_cell) >= MinCellLen
    /\ \A k \in 0..(MinCellLen - 1) : At(dt_cell, k) < Len(terrain_vertices)

\* lib.rs:140-155: one iteration; indexing dt_cell[0..2] panics on a cell
\* with fewer than 3 vertices.
CreateRegion ==
    /\ pc = "regions"
    /\ Len(regions) < Len(dt_cells)
    /\ IF NormalIndicesInRange(At(dt_cells, Len(regions)))
       THEN /\ regions' = Append(regions, Region)
            /\ pc' = "regions"
       ELSE /\ pc' = "panic_index"
            /\ UNCHANGED regions
    /\ UNCHANGED <<dt_vertices, dt_cells, region_index, vertex_index,
                   terrain_edges_by_vertex_index, terrain_edges, region_edges,
                   region_by_terrain_edge, terrain_edge_index_by_edge,
                   terrain_vertices, terrain>>

\* lib.rs:157-171: the graphs are assembled and returned.
Assemble ==
    /\ pc = "regions"
    /\ Len(regions) = Len(dt_cells)
    /\ terrain' = [terrain_graph |-> Graph(terrain_vertices, terrain_edges),
                   region_graph  |-> Graph(regions, region_edges)]
    /\ pc' = "done"
    /\ UNCHANGED <<dt_vertices, dt_cells, region_index, vertex_index,
                   terrain_edges_by_vertex_index, terrain_edges, region_edges,
                   region_by_terrain_edge, terrain_edge_index_by_edge,
                   terrain_vertices, regions>>

Next ==
    \/ EdgeStep
    \/ NextCell
    \/ EndCells
    \/ CreateTerrainVertex
    \/ EndVertices
    \/ CreateRegion
    \/ Assemble

Spec == Init /\ [][Next]_vars

\* build() on the decompositions that meet the tessellation contract.
SpecContract == InitContract /\ [][Next]_vars

----------------------------------------------------------------------------
\* Vocabulary of the properties.

Range(s) == {s[k] : k \in 1..Len(s)}

\* The unordered pair of a stored edge.
Undirected(e) == {e[1], e[2]}

\* build() ended in a panic.
Panicked == pc \in {"panic_expect", "panic_unwrap", "panic_index"}

Valid == ValidDecomposition(dt_vertices, dt_cells)

Positions == PositionsOf(dt_cells)

\* The directed edge traversed at a cell position.
Directed(p) == DirectedAt(dt_cells, p)

\* The positions the loop has completed.
Processed ==
    {p \in Positions :
        \/ pc # "cells"
        \/ p[1] < region_index
        \/ p[1] = region_index /\ p[2] < vertex_index}

\* The position the loop is about to process.
AtPosition ==
    /\ pc = "cells"
    /\ region_index < Len(dt_cells)
    /\ vertex_index < Len(At(dt_cells, region_index))

\* Number of boundary edges cell a shares with cell b: positions of a whose
\* reverse edge is traversed by b.
SharedEdges(a, b) ==
    Cardinality({p \in Positions :
        /\ p[1] = a
        /\ \E q \in Positions :
              q[1] = b /\ Directed(q) = <<Directed(p)[2], Directed(p)[1]>>})

\* Number of entries of a region edge list that join regions a and b.
Joining(edges, a, b) ==
    Cardinality({k \in 1..Len(edges) : edges[k] \in {<<a, b>>, <<b, a>>}})

----------------------------------------------------------------------------
\* C1: after build() on a valid decomposition there are no dangling
\* references: every index in a TerrainVertex's edges list is below the
\* number of terrain edges, both endpoints of every terrain edge are below
\* the number of terrain vertices, and both endpoints of every region edge
\* are below the number of regions.
C1_NoDanglingReferences ==
    (pc = "done" /\ Valid) =>
        LET tg == terrain.terrain_graph
            rg == terrain.region_graph
        IN  /\ \A v \in 1..Len(tg.vertices) : \A k \in Range(tg.vertices[v].edges) :
                  k >= 0 /\ k < Len(tg.edges)
            /\ \A k \in 1..Len(tg.edges) :
                  /\ tg.edges[k][1] >= 0 /\ tg.edges[k][1] < Len(tg.vertices)
                  /\ tg.edges[k][2] >= 0 /\ tg.edges[k][2] < Len(tg.vertices)
            /\ \A k \in 1..Len(rg.edges) :
                  /\ rg.edges[k][1] >= 0 /\ rg.edges[k][1] < Len(rg.vertices)
                  /\ rg.edges[k][2] >= 0 /\ rg.edges[k][2] < Len(rg.vertices)

\* A valid decomposition of four vertices with a shared boundary was built.
C1_Witness ==
    /\ pc = "done" /\ Valid
    /\ dt_vertices >= 4
    /\ Len(terrain.region_graph.edges) >= 1
    /\ Len(terrain.terrain_graph.edges) >= 5

\* Some undirected edge is stored at two positions of terrain_edges.
TerrainEdgeStoredTwice ==
    \E p, q \in 1..Len(terrain_edges) :
        p # q /\ Undirected(terrain_edges[p]) = Undirected(terrain_edges[q])

\* C2: for winding-consistent cells, after every step of the cell/vertex
\* loop no undirected terrain edge is stored twice (stated contrapositively:
\* an edge stored twice occurs only when the cells are not winding-consistent).
C2_NoDuplicateTerrainEdge ==
    TerrainEdgeStoredTwice => ~WindingConsistent(dt_cells)

\* A winding-consistent run in which a reverse edge was found and reused.
C2_Witness ==
    /\ WindingConsistent(dt_cells)
    /\ Len(region_edges) >= 1
    /\ Len(terrain_edges) >= 3
    /\ region_index >= 1

\* C3: after build() on a valid decomposition the two graphs are dual except
\* at the exterior boundary: every traversed undirected edge is stored once as
\* a terrain edge, the region edges joining two cells are as many as the
\* boundary edges the two cells share (so each shared terrain edge has exactly
\* one region edge, joining exactly its two cells, every region edge arises
\* from a shared terrain edge, and an edge traversed by one cell has none),
\* and no region edge joins a cell to itself.
C3_DualExceptBoundary ==
    (pc = "done" /\ Valid) =>
        LET te == terrain.terrain_graph.edges
            re == terrain.region_graph.edges
            cellIds == 0..(Len(dt_cells) - 1)
        IN  /\ \A p \in Positions :
                  Cardinality({k \in 1..Len(te) :
                      Undirected(te[k]) = Undirected(Directed(p))}) = 1
            /\ \A k \in 1..Len(te) : \E p \in Positions : Directed(p) = te[k]
            /\ \A a, b \in cellIds : a # b => Joining(re, a, b) = SharedEdges(a, b)
            /\ \A k \in 1..Len(re) :
                  /\ re[k][1] \in cellIds /\ re[k][2] \in cellIds
                  /\ re[k][1] # re[k][2]

\* A valid decomposition with an interior and an exterior terrain edge was built.
C3_Witness ==
    /\ pc = "done" /\ Valid
    /\ \E a, b \in 0..(Len(dt_cells) - 1) : a # b /\ SharedEdges(a, b) >= 1
    /\ \E p \in Positions :
          \A q \in Positions : Directed(q) # <<Directed(p)[2], Directed(p)[1]>>

C5_AppendedIsEdgeIndex ==
    [][(AtPosition /\ pc' = "cells") =>
          LET p == <<region_index, vertex_index>>
              current == Directed(p)[1]
              list == terrain_edges_by_vertex_index'[current]
              appended == list[Len(list)]
          IN  /\ appended >= 0 /\ appended < Len(terrain_edges')
              /\ Undirected(At(terrain_edges', appended)) = Undirected(Directed(p))
       ]_vars

\* C6: after build() every region edge index is listed by both regions it joins.
C6_RegionsCarryAdjacencyEdges ==
    pc = "done" =>
        LET rg == terrain.region_graph
        IN  \A k \in 1..Len(rg.edges) :
                /\ (k - 1) \in Range(At(rg.vertices, rg.edges[k][1]).edges)
                /\ (k - 1) \in Range(At(rg.vertices, rg.edges[k][2]).edges)

\* C7: build() never reaches a panic state, whatever the decomposition.
C7_NeverPanics == ~Panicked

\* C8 as stated: after build() on a valid decomposition every terrain edge
\* index is listed by both of the edge's endpoints.
C8_IncidentListComplete ==
    (pc = "done" /\ Valid) =>
        LET tg == terrain.terrain_graph
        IN  \A k \in 1..Len(tg.edges) : \A v \in Undirected(tg.edges[k]) :
                (k - 1) \in Range(At(tg.vertices, v).edges)

\* C8 amended: every terrain edge index is listed by the first component of
\* its edge, the vertex that was `current` when the edge was stored.
C8_IncidentListHasOwnEdges ==
    (pc = "done" /\ Valid) =>
        LET tg == terrain.terrain_graph
        IN  \A k \in 1..Len(tg.edges) :
                (k - 1) \in Range(At(tg.vertices, tg.edges[k][1]).edges)

\* A valid decomposition was built in which some edge is not listed by its
\* second endpoint, and some vertex lists more than one edge.
C8_Witness ==
    /\ pc = "done" /\ Valid
    /\ LET tg == terrain.terrain_graph
       IN  /\ \E k \in 1..Len(tg.edges) :
                 (k - 1) \notin Range(At(tg.vertices, tg.edges[k][2]).edges)
           /\ \E v \in 1..Len(tg.vertices) : Len(tg.vertices[v].edges) >= 2

\* The loop is about to traverse (u,v) a second time: another cell has
\* traversed and stored (u,v), and no cell traverses (v,u).
SecondTraversal ==
    /\ AtPosition
    /\ LET p == <<region_index, vertex_index>>
       IN  /\ \E q \in Processed : q[1] # p[1] /\ Directed(q) = Directed(p)
           /\ \A q \in Positions : Directed(q) # <<Directed(p)[2], Directed(p)[1]>>

\* C9: with inconsistent winding build() reports nothing and completes: the
\* second traversal of (u,v) stores (u,v) again in terrain_edges and records
\* no region edge, and a decomposition that is otherwise well formed never
\* ends in a panic.
C9_SilentDuplicateEdge ==
    /\ []((CellsWellFormed(dt_cells) /\ VerticesCovered(dt_vertices, dt_cells))
              => ~Panicked)
    /\ [][SecondTraversal =>
             LET e == Directed(<<region_index, vertex_index>>)
             IN  /\ e \in Range(terrain_edges)
                 /\ terrain_edges' = Append(terrain_edges, e)
                 /\ region_edges' = region_edges
                 /\ pc' = "cells"
         ]_vars

\* build() returned for two cells that traverse the same boundary in the same
\* direction: the edge is stored twice and the cells are not adjacent.
C9_Witness ==
    /\ pc = "done"
    /\ ~WindingConsistent(dt_cells)
    /\ CellsWellFormed(dt_cells)
    /\ \E p, q \in 1..Len(terrain.terrain_graph.edges) :
          p # q /\ terrain.terrain_graph.edges[p] = terrain.terrain_graph.edges[q]
    /\ terrain.region_graph.edges = <<>>

\* C10: for any cell list the two lookup tables have the same key set, and
\* the expect() on the region lookup never fires.
C10_TablesShareKeys ==
    /\ DOMAIN region_by_terrain_edge = DOMAIN terrain_edge_index_by_edge
    /\ pc # "panic_expect"

\* A reverse edge was found in the tables of an inconsistently wound or
\* degenerate cell list.
C10_Witness ==
    /\ Len(region_edges) >= 1
    /\ DOMAIN terrain_edge_index_by_edge # {}
    /\ ~Valid

====
